---- MODULE Spec2Model ----
(***************************************************************************)
(* Model of the bazaar backend: the cart / stock reservation handlers      *)
(* (controllers/cart.ts), order placement (controllers/checkout.ts) and    *)
(* the authentication handlers (controllers/auth.ts, models/User.ts).      *)
(*                                                                         *)
(* Every `await` of a handler is a step boundary: between two steps of one *)
(* request any step of another request may run.  The database is the       *)
(* shared state; each request keeps its own copies of the documents it     *)
(* has read (DocProduct, DocCart), as the Mongoose documents do.           *)
(***************************************************************************)
EXTENDS Integers, Sequences, FiniteSets, TLC

(***************************************************************************)
(* Bounds of the model.                                                    *)
(***************************************************************************)
MaxRequests == 3

Procs == {1, 2}

Users == {"u1", "u2"}

Products == {"p1", "p2"}

\* quantities a request body may carry (Number(req.body.quantity) * 1)
Quantities == {-1, 0, 1, 1000}

PositiveQuantities == {1, 2, 1000}

InitialStock == [p \in Products |-> IF p = "p1" THEN 1001 ELSE 2]

\* the value of a field that is not set on a document
Undefined == "undefined"

\* the value populate() leaves for a reference whose document is gone
Null == "null"

\* a numeric field that is not set on a document (selling_price is optional)
NotSet == -1

\* selling_price of each product: p1 has none, p2 is on sale
SellingPrice == [p \in Products |-> IF p = "p1" THEN NotSet ELSE 2]

(***************************************************************************)
(* Schema constants.                                                       *)
(***************************************************************************)
MinQuantity == 1

MaxQuantity == 1000

Role == [u \in Users |-> IF u = "u2" THEN "admin" ELSE "member"]

\* user.addresses holds a default billing and a default shipping address
HasDefaultAddresses == [u \in Users |-> u = "u1"]

Price == [p \in Products |-> IF p = "p1" THEN 3 ELSE 5]

VARIABLES
    stock,          \* Product.stock of each product
    prodExists,     \* whether the product document exists
    carts,          \* the cart document of each owner (id 0: none)
    nextCartId,     \* the _id the next inserted cart gets
    orders,         \* the order collection, in creation order
    epoch,          \* per user: how many times an order emptied the cart
    pc,             \* position of each request in its handler
    req,            \* the request each process is serving
    DocProduct,     \* the handler's copy of the product's stock
    DocCart,        \* the handler's copy of the cart document
    DocOrder,       \* index in orders of the order the handler created
    resp,           \* the last response sent
    started,        \* number of requests received so far
    mode,           \* how the clients send requests (fixed by Init)
    now,            \* Date.now(), in milliseconds
    ticks,          \* number of times the clock has advanced
    userExists,     \* whether the user document exists
    password,       \* User.password
    passwordChangedAt,  \* User.password_changed_at (NotSet when not set)
    resetToken,     \* User.password_reset_token (NotSet when not set)
    resetExpiration,    \* User.password_reset_token_expiration
    nextResetToken, \* the next value crypto.randomBytes gives
    jwts,           \* the JWTs signed so far
    authResp,       \* the outcome of the last authentication request
    authStarted     \* number of authentication requests received so far

authVars == <<now, ticks, userExists, password, passwordChangedAt, resetToken,
              resetExpiration, nextResetToken, jwts, authResp, authStarted>>

cartVars == <<stock, prodExists, carts, nextCartId, orders, epoch,
              pc, req, DocProduct, DocCart, DocOrder, resp, started, mode>>

vars == <<cartVars, authVars>>

NoCart == [id |-> 0, products |-> <<>>, v |-> 0]

\* preStock, preLines, preCart and preEpoch record what the database held
\* when the request was received; only the properties read them
NoReq == [kind |-> "none", user |-> "u1", product |-> "p1", quantity |-> 0,
          preStock |-> 0, preLines |-> <<>>, preCart |-> 0, preEpoch |-> 0]

NoResp == [kind |-> "none", code |-> 0, error |-> "none", body |-> <<>>]

BodyProducts == Products \cup {Undefined}

(***************************************************************************)
(* Helpers.                                                                *)
(***************************************************************************)
\* Array.prototype.findIndex on the product ids of the cart lines:
\* the 0-based index of the first line of product p, or -1
findIndex(lines, p) ==
    IF \E i \in 1..Len(lines) : lines[i].product = p
    THEN (CHOOSE i \in 1..Len(lines) :
              /\ lines[i].product = p
              /\ \A j \in 1..(i - 1) : lines[j].product # p) - 1
    ELSE -1

\* Array.prototype.splice(ind, 1), ind 0-based
splice(lines, ind) ==
    [i \in 1..(Len(lines) - 1) |-> IF i <= ind THEN lines[i] ELSE lines[i + 1]]

\* the max validator alone
MaxValidatorOnly(n) == n <= MaxQuantity

\* the min / max validators of products.quantity
ValidQuantity(n) == n >= MinQuantity /\ n <= MaxQuantity

\* the status the global error handler answers with (production branch)
ErrorCode(error) == IF error = "ValidationError" THEN 400 ELSE 500

\* a JavaScript condition on a number that may be undefined
Truthy(x) == x # NotSet /\ x # 0

\* the roles the admin section of the cart router lets through
CartAdminRoles == {"admin", "member"}

ProductAdminRoles == {"admin"}

isAuthorized(authorizedRoles, role) ==
    ~ (role = Undefined \/ role \notin authorizedRoles)

\* what the handler's copy of a cart looks like right after it is read
LocalCart(doc) ==
    [id |-> doc.id, products |-> doc.products, v |-> doc.v,
     delta |-> "none", ind |-> -1]

NoLocalCart == LocalCart(NoCart)

\* Cart.findOneAndUpdate({owner}, {owner}, {upsert: true, new: true})
CartUpsert(u) ==
    IF carts[u].id = 0
    THEN [id |-> nextCartId, products |-> <<>>, v |-> 0]
    ELSE carts[u]

\* populate({path: 'products.product'}): a missing product becomes null
Populate(lines) ==
    [i \in 1..Len(lines) |->
        [product  |-> IF prodExists[lines[i].product]
                      THEN lines[i].product ELSE Null,
         quantity |-> lines[i].quantity]]

\* the reduce of placeMyOrder over the populated cart lines
RECURSIVE totalAmount(_)
totalAmount(lines) ==
    IF Len(lines) = 0 THEN 0
    ELSE LET currProd == lines[Len(lines)]
             prev == totalAmount(SubSeq(lines, 1, Len(lines) - 1))
         IN  IF currProd.product = Null
             THEN prev
             ELSE prev + (IF Truthy(SellingPrice[currProd.product])
                          THEN SellingPrice[currProd.product]
                          ELSE Price[currProd.product]) * currProd.quantity

(***************************************************************************)
(* Document.save() of a cart: the write Mongoose sends for each kind of    *)
(* change and the version check that goes with it.                         *)
(***************************************************************************)
\* $set of products.<i>.quantity: sent with the __v the document was read at
CanSaveWhere(u, doc) == carts[u].id = doc.id /\ carts[u].v = doc.v

\* $push to products: found by _id alone, __v incremented
CanSavePush(u, doc) == carts[u].id = doc.id

SetQuantity(cart, ind, n) ==
    [cart EXCEPT !.products[ind + 1].quantity = n]

PushLine(cart, p, q) ==
    [cart EXCEPT !.products = Append(@, [product |-> p, quantity |-> q]),
                 !.v = @ + 1]

SetProducts(cart, lines) ==
    [cart EXCEPT !.products = lines, !.v = @ + 1]

(***************************************************************************)
(* Ending a request.                                                       *)
(***************************************************************************)
\* what a removeItemFromCart request asked for, kept with its answer
Body(rq) ==
    IF rq.kind = "removeItemFromCart"
    THEN <<rq.user, rq.product, rq.quantity>>
    ELSE <<>>

Respond(r, rq, code, error) ==
    /\ resp' = [kind |-> rq.kind, code |-> code, error |-> error,
                body |-> Body(rq)]
    /\ pc' = [pc EXCEPT ![r] = "idle"]
    /\ req' = [req EXCEPT ![r] = NoReq]
    /\ DocProduct' = [DocProduct EXCEPT ![r] = 0]
    /\ DocCart' = [DocCart EXCEPT ![r] = NoLocalCart]
    /\ DocOrder' = [DocOrder EXCEPT ![r] = 0]

\* a request is received; when requests are served one after the other a
\* single process serves them all
Receive(r) ==
    /\ pc[r] = "idle"
    /\ started < MaxRequests
    /\ mode.sequential => r = 1
    /\ started' = started + 1
    /\ mode' = mode
    /\ UNCHANGED authVars

\* the quantities the clients send
Q == IF mode.positive THEN PositiveQuantities ELSE Quantities

NewReq(kind, u, p, q) ==
    [kind |-> kind, user |-> u, product |-> p, quantity |-> q,
     preStock |-> IF p \in Products THEN stock[p] ELSE 0,
     preLines |-> carts[u].products,
     preCart  |-> carts[u].id,
     preEpoch |-> epoch[u]]

(***************************************************************************)
(* addItemInCart                                                           *)
(***************************************************************************)
\* steps 1-4: validate, then the conditional stock decrement
AddReserve(r) ==
    /\ Receive(r)
    /\ \E u \in Users, p \in BodyProducts, q \in Q :
        LET rq == NewReq("addItemInCart", u, p, q) IN
        IF p = Undefined
        THEN /\ Respond(r, rq, 400, "AppError")
             /\ UNCHANGED <<stock, prodExists, carts,
                            nextCartId, orders, epoch>>
        ELSE IF prodExists[p] /\ stock[p] >= q
        THEN /\ stock' = [stock EXCEPT ![p] = @ - q]
             /\ DocProduct' = [DocProduct EXCEPT ![r] = stock[p] - q]
             /\ req' = [req EXCEPT ![r] = rq]
             /\ pc' = [pc EXCEPT ![r] = "add_upsert"]
             /\ UNCHANGED <<prodExists, carts, nextCartId,
                            orders, epoch, DocCart, DocOrder, resp>>
        ELSE /\ Respond(r, rq, 400, "AppError")
             /\ UNCHANGED <<stock, prodExists, carts,
                            nextCartId, orders, epoch>>

\* step 5: the cart upsert returns the caller's cart
AddUpsert(r) ==
    /\ pc[r] = "add_upsert"
    /\ LET u == req[r].user
           doc == CartUpsert(u) IN
        /\ carts' = [carts EXCEPT ![u] = doc]
        /\ nextCartId' = IF carts[u].id = 0 THEN nextCartId + 1 ELSE nextCartId
        /\ DocCart' = [DocCart EXCEPT ![r] = LocalCart(doc)]
        /\ pc' = [pc EXCEPT ![r] = "add_save"]
    /\ UNCHANGED <<stock, prodExists, orders, epoch, req,
                   DocProduct, DocOrder, resp, started, mode, authVars>>

\* step 5 returns nothing: the handler goes to its rollback
AddUpsertNull(r) ==
    /\ pc[r] = "add_upsert"
    /\ pc' = [pc EXCEPT ![r] = "add_rollback"]
    /\ UNCHANGED <<stock, prodExists, carts, nextCartId, orders,
                   epoch, req, DocProduct, DocCart, DocOrder, resp, started, mode, authVars>>

\* DocProduct.stock += quantity: the value save() writes back
RollbackStock(r) == DocProduct[r] + req[r].quantity

\* step 6: DocProduct.stock += quantity; await DocProduct.save(); throw 500
AddRollback(r) ==
    /\ pc[r] = "add_rollback"
    /\ LET p == req[r].product IN
        IF prodExists[p]
        THEN /\ stock' = [stock EXCEPT ![p] = RollbackStock(r)]
             /\ Respond(r, req[r], 500, "AppError")
        ELSE /\ stock' = stock
             /\ Respond(r, req[r], 500, "DocumentNotFoundError")
    /\ UNCHANGED <<prodExists, carts, nextCartId, orders, epoch,
                   started, mode, authVars>>

\* a lookup that never finds the product's line
AddIndexNotFound(r) == -1

\* step 7: the index of the product in the handler's copy of the cart
AddIndex(r) == findIndex(DocCart[r].products, req[r].product)

\* steps 7-10: merge or push the line, save the cart, answer
AddSave(r) ==
    /\ pc[r] = "add_save"
    /\ LET u == req[r].user
           p == req[r].product
           q == req[r].quantity
           doc == DocCart[r]
           ind == AddIndex(r)
       IN
        IF ind # -1
        THEN LET n == doc.products[ind + 1].quantity + q IN
             IF q = 0
             THEN /\ carts' = carts
                  /\ Respond(r, req[r], 200, "none")
             ELSE IF ~ ValidQuantity(n)
             THEN /\ carts' = carts
                  /\ Respond(r, req[r], ErrorCode("ValidationError"),
                             "ValidationError")
             ELSE IF CanSaveWhere(u, doc)
             THEN /\ carts' = [carts EXCEPT ![u] = SetQuantity(@, ind, n)]
                  /\ Respond(r, req[r], 200, "none")
             ELSE /\ carts' = carts
                  /\ Respond(r, req[r], ErrorCode("VersionError"),
                             "VersionError")
        ELSE IF ~ ValidQuantity(q)
             THEN /\ carts' = carts
                  /\ Respond(r, req[r], ErrorCode("ValidationError"),
                             "ValidationError")
             ELSE IF CanSavePush(u, doc)
             THEN /\ carts' = [carts EXCEPT ![u] = PushLine(@, p, q)]
                  /\ Respond(r, req[r], 200, "none")
             ELSE /\ carts' = carts
                  /\ Respond(r, req[r], ErrorCode("DocumentNotFoundError"),
                             "DocumentNotFoundError")
    /\ UNCHANGED <<stock, prodExists, nextCartId, orders, epoch,
                   started, mode, authVars>>

(***************************************************************************)
(* removeItemFromCart                                                      *)
(***************************************************************************)
\* a removal that sets the line to the quantity given, not lowers it by it
RemoveLocalAssigns(doc, ind, q) ==
    IF doc.products[ind + 1].quantity = q
    THEN [doc EXCEPT !.products = splice(doc.products, ind),
                     !.delta = "setProducts", !.ind = ind]
    ELSE [doc EXCEPT !.products[ind + 1].quantity = q,
                     !.delta = "setQuantity", !.ind = ind]

\* step 5 on the handler's copy: splice the line or lower its quantity
RemoveLocal(doc, ind, q) ==
    IF doc.products[ind + 1].quantity = q
    THEN [doc EXCEPT !.products = splice(doc.products, ind),
                     !.delta = "setProducts", !.ind = ind]
    ELSE [doc EXCEPT !.products[ind + 1].quantity = @ - q,
                     !.delta = "setQuantity", !.ind = ind]

\* a comparison that lets every quantity through
NeverMoreThanInCart(doc, ind, q) == FALSE

\* step 5: DocCart.products[ind].quantity < quantity
MoreThanInCart(doc, ind, q) == doc.products[ind + 1].quantity < q

\* steps 1-5: validate, upsert the cart, find the line, change the copy
RemStart(r) ==
    /\ Receive(r)
    /\ \E u \in Users, p \in BodyProducts, q \in Q :
        LET rq == NewReq("removeItemFromCart", u, p, q) IN
        IF p = Undefined \/ q = 0
        THEN /\ Respond(r, rq, 400, "AppError")
             /\ UNCHANGED <<carts, nextCartId>>
        ELSE LET doc == CartUpsert(u)
                 ind == findIndex(doc.products, p)
             IN
             /\ carts' = [carts EXCEPT ![u] = doc]
             /\ nextCartId' = IF carts[u].id = 0 THEN nextCartId + 1
                              ELSE nextCartId
             /\ IF ind # -1 /\ MoreThanInCart(doc, ind, q)
                THEN Respond(r, rq, 400, "AppError")
                ELSE /\ req' = [req EXCEPT ![r] = rq]
                     /\ DocCart' = [DocCart EXCEPT ![r] =
                            IF ind # -1
                            THEN RemoveLocal(LocalCart(doc), ind, q)
                            ELSE LocalCart(doc)]
                     /\ pc' = [pc EXCEPT ![r] =
                            IF ind # -1 THEN "rem_save" ELSE "rem_stock"]
                     /\ UNCHANGED <<DocProduct, DocOrder, resp>>
    /\ UNCHANGED <<stock, prodExists, orders, epoch>>

\* step 5: await DocCart.save()
RemSave(r) ==
    /\ pc[r] = "rem_save"
    /\ LET u == req[r].user
           doc == DocCart[r]
       IN
        IF doc.delta = "setQuantity"
           /\ ~ ValidQuantity(doc.products[doc.ind + 1].quantity)
        THEN /\ carts' = carts
             /\ Respond(r, req[r], ErrorCode("ValidationError"),
                        "ValidationError")
        ELSE IF ~ CanSaveWhere(u, doc)
        THEN /\ carts' = carts
             /\ Respond(r, req[r], ErrorCode("VersionError"), "VersionError")
        ELSE /\ carts' = [carts EXCEPT ![u] =
                    IF doc.delta = "setProducts"
                    THEN SetProducts(@, doc.products)
                    ELSE SetQuantity(@, doc.ind,
                                     doc.products[doc.ind + 1].quantity)]
             /\ DocCart' = [DocCart EXCEPT ![r] =
                    [doc EXCEPT !.v = IF doc.delta = "setProducts"
                                      THEN @ + 1 ELSE @,
                                !.delta = "none"]]
             /\ pc' = [pc EXCEPT ![r] = "rem_stock"]
             /\ UNCHANGED <<req, DocProduct, DocOrder, resp>>
    /\ UNCHANGED <<stock, prodExists, nextCartId, orders, epoch,
                   started, mode, authVars>>

\* step 7 on the handler's copy: give the line its quantity back or push it
RestoreLocal(doc, p, q) ==
    IF doc.products[doc.ind + 1].product = p
    THEN [doc EXCEPT !.products[doc.ind + 1].quantity = @ + q,
                     !.delta = "setQuantity"]
    ELSE [doc EXCEPT !.products = Append(@, [product |-> p, quantity |-> q]),
                     !.delta = "push"]

\* steps 6-8: give the stock back; when the product is gone, start the
\* rollback (DocCart.products[ind] of a missing index throws a TypeError)
RemStock(r) ==
    /\ pc[r] = "rem_stock"
    /\ LET p == req[r].product
           q == req[r].quantity
           doc == DocCart[r]
       IN
        IF prodExists[p]
        THEN /\ stock' = [stock EXCEPT ![p] = @ + q]
             /\ Respond(r, req[r], 200, "none")
        ELSE IF doc.ind < 0 \/ doc.ind >= Len(doc.products)
        THEN /\ stock' = stock
             /\ Respond(r, req[r], ErrorCode("TypeError"), "TypeError")
        ELSE /\ stock' = stock
             /\ DocCart' = [DocCart EXCEPT ![r] = RestoreLocal(doc, p, q)]
             /\ pc' = [pc EXCEPT ![r] = "rem_rollback"]
             /\ UNCHANGED <<req, DocProduct, DocOrder, resp>>
    /\ UNCHANGED <<prodExists, carts, nextCartId, orders, epoch,
                   started, mode, authVars>>

\* step 7: await DocCart.save(); throw 500
RemRollback(r) ==
    /\ pc[r] = "rem_rollback"
    /\ LET u == req[r].user
           doc == DocCart[r]
       IN
        IF doc.delta = "setQuantity"
        THEN IF CanSaveWhere(u, doc)
             THEN /\ carts' = [carts EXCEPT ![u] =
                         SetQuantity(@, doc.ind,
                                     doc.products[doc.ind + 1].quantity)]
                  /\ Respond(r, req[r], 500, "AppError")
             ELSE /\ carts' = carts
                  /\ Respond(r, req[r], ErrorCode("VersionError"),
                             "VersionError")
        ELSE IF CanSavePush(u, doc)
             THEN /\ carts' = [carts EXCEPT ![u] =
                         PushLine(@, req[r].product, req[r].quantity)]
                  /\ Respond(r, req[r], 500, "AppError")
             ELSE /\ carts' = carts
                  /\ Respond(r, req[r], ErrorCode("DocumentNotFoundError"),
                             "DocumentNotFoundError")
    /\ UNCHANGED <<stock, prodExists, nextCartId, orders, epoch,
                   started, mode, authVars>>

(***************************************************************************)
(* placeMyOrder, reached from checkoutSuccessWithoutPay and from the       *)
(* Stripe webhook (which answers 200 whatever placeMyOrder does)           *)
(***************************************************************************)
OrderKinds == {"checkoutSuccessWithoutPay", "checkoutSuccessStripeWebhook"}

\* the status the caller of placeMyOrder answers with
OrderCode(kind, code) ==
    IF kind = "checkoutSuccessStripeWebhook" THEN 200 ELSE code

\* step 8: the order object built from the cart the handler read
orderObject(r) ==
    [customer       |-> req[r].user,
     products       |-> DocCart[r].products,
     paid_amount    |-> totalAmount(DocCart[r].products),
     payment_method |-> IF req[r].kind = "checkoutSuccessWithoutPay"
                        THEN "cash_on_delivery" ELSE "card",
     \* history, for the properties: what the stored cart held when it was
     \* read and when the order was created, and the cart's epoch at the read
     readLines      |-> req[r].preLines,
     readCart       |-> req[r].preCart,
     readEpoch      |-> req[r].preEpoch,
     createLines    |-> carts[req[r].user].products]

\* steps 1-7: read the cart with its products, check it and the addresses
OrderRead(r) ==
    /\ Receive(r)
    /\ \E u \in Users, kind \in OrderKinds :
        LET rq == NewReq(kind, u, Undefined, 0)
            cart == carts[u]
        IN
        IF cart.id = 0 \/ Len(cart.products) <= 0
        THEN Respond(r, rq, OrderCode(kind, 400), "AppError")
        ELSE IF ~ HasDefaultAddresses[u]
        THEN Respond(r, rq, OrderCode(kind, 400), "AppError")
        ELSE /\ req' = [req EXCEPT ![r] = rq]
             /\ DocCart' = [DocCart EXCEPT ![r] =
                    [LocalCart(cart) EXCEPT !.products = Populate(cart.products)]]
             /\ pc' = [pc EXCEPT ![r] = "order_create"]
             /\ UNCHANGED <<DocProduct, DocOrder, resp>>
    /\ UNCHANGED <<stock, prodExists, carts, nextCartId, orders,
                   epoch>>

\* steps 8-10: Order.create(orderObject)
OrderCreate(r) ==
    /\ pc[r] = "order_create"
    /\ orders' = Append(orders, orderObject(r))
    /\ DocOrder' = [DocOrder EXCEPT ![r] = Len(orders) + 1]
    /\ pc' = [pc EXCEPT ![r] = "order_clear"]
    /\ UNCHANGED <<stock, prodExists, carts, nextCartId, epoch,
                   req, DocProduct, DocCart, resp, started, mode, authVars>>

\* steps 11-12: cart.products = []; await cart.save(); return the order
OrderClear(r) ==
    /\ pc[r] = "order_clear"
    /\ LET u == req[r].user IN
        IF CanSaveWhere(u, DocCart[r])
        THEN /\ carts' = [carts EXCEPT ![u] = SetProducts(@, <<>>)]
             /\ epoch' = [epoch EXCEPT ![u] = @ + 1]
             /\ Respond(r, [req[r] EXCEPT !.quantity = DocOrder[r]],
                        200, "none")
        ELSE /\ carts' = carts
             /\ epoch' = epoch
             /\ Respond(r, [req[r] EXCEPT !.quantity = DocOrder[r]],
                        OrderCode(req[r].kind, ErrorCode("VersionError")),
                        "VersionError")
    /\ UNCHANGED <<stock, prodExists, nextCartId, orders,
                   started, mode, authVars>>

(***************************************************************************)
(* deleteProduct (admin only)                                              *)
(***************************************************************************)
DeleteProduct(r) ==
    /\ Receive(r)
    /\ \E u \in Users, p \in Products :
        LET rq == NewReq("deleteProduct", u, p, 0) IN
        IF ~ isAuthorized(ProductAdminRoles, Role[u])
        THEN /\ prodExists' = prodExists
             /\ Respond(r, rq, 403, "AppError")
        ELSE IF ~ prodExists[p]
        THEN /\ prodExists' = prodExists
             /\ Respond(r, rq, 404, "AppError")
        ELSE /\ prodExists' = [prodExists EXCEPT ![p] = FALSE]
             /\ Respond(r, rq, 204, "none")
    /\ UNCHANGED <<stock, carts, nextCartId, orders, epoch>>

(***************************************************************************)
(* The admin section of the cart router: isAuthorized, then the handler.   *)
(* A cart is addressed by its owner here (one cart per owner).             *)
(***************************************************************************)
\* Router.use(isAuthorized('admin', 'member')) in front of GET /cart,
\* GET /cart/:id and DELETE /cart/:id
CartAdminRoute(r) ==
    /\ Receive(r)
    /\ \E u \in Users, id \in Users,
          kind \in {"getManyCart", "getCart", "deleteCart"} :
        LET rq == [NewReq(kind, u, Undefined, 0) EXCEPT !.product = id] IN
        IF ~ isAuthorized(CartAdminRoles, Role[u])
        THEN Respond(r, rq, 403, "AppError")
        ELSE /\ req' = [req EXCEPT ![r] = rq]
             /\ pc' = [pc EXCEPT ![r] = "cart_admin"]
             /\ UNCHANGED <<DocProduct, DocCart, DocOrder, resp>>
    /\ UNCHANGED <<stock, prodExists, carts, nextCartId, orders, epoch>>

\* getManyCart and getCart: the carts are read and sent
GetCart(r) ==
    /\ pc[r] = "cart_admin"
    /\ req[r].kind \in {"getManyCart", "getCart"}
    /\ IF req[r].kind = "getCart" /\ carts[req[r].product].id = 0
       THEN Respond(r, req[r], 404, "AppError")
       ELSE Respond(r, req[r], 200, "none")
    /\ UNCHANGED <<stock, prodExists, carts, nextCartId, orders, epoch,
                   started, mode, authVars>>

\* deleteCart: findOneAndDelete, then the stock reclaim, whose update
\* ({$in4c: ...}) the database rejects for every line of the deleted cart
DeleteCart(r) ==
    /\ pc[r] = "cart_admin"
    /\ req[r].kind = "deleteCart"
    /\ LET id == req[r].product IN
        IF carts[id].id = 0
        THEN /\ carts' = carts
             /\ Respond(r, req[r], 404, "AppError")
        ELSE /\ carts' = [carts EXCEPT ![id] = NoCart]
             /\ IF Len(carts[id].products) = 0
                THEN Respond(r, req[r], 204, "none")
                ELSE Respond(r, req[r], ErrorCode("MongoServerError"),
                             "MongoServerError")
    /\ UNCHANGED <<stock, prodExists, nextCartId, orders, epoch, started, mode, authVars>>

(***************************************************************************)
(* Authentication: login, forgotPassword, resetPassword, deleteUser and    *)
(* the isAuthenticated middleware.  Each is one step.                      *)
(***************************************************************************)
MaxTicks == 2

MaxAuthRequests == 4

Passwords == {"pw0", "pw1"}

\* 1000 * 60 * 60 * 24: the life of a password reset token, in milliseconds
ResetTokenLife == 1000 * 60 * 60 * 24

\* expiresIn '1 day', in seconds
JwtLife == 60 * 60 * 24

\* by how much the clock may advance in one step
TickSteps == {600, ResetTokenLife}

\* crypto.createHash('sha256').update(token).digest('hex'): one value per token
sha256(token) == 2 * token + 1

NoJWT == [payload |-> Undefined, iat |-> 0, exp |-> 0, signed |-> FALSE,
          issuedAt |-> 0]

\* JWT.sign({payload}, secret, {expiresIn}): iat is in whole seconds;
\* issuedAt is the time of signing, which only the properties read
JWT_CreateToken(u) ==
    [payload |-> u, iat |-> now \div 1000, exp |-> (now \div 1000) + JwtLife,
     signed |-> TRUE, issuedAt |-> now]

\* a token not signed with the server's key, such as the logout cookie
Forged(u) == [JWT_CreateToken(u) EXCEPT !.signed = FALSE]

\* JWT.verify: the signature is the server's and the token has not expired
JWT_VerifyToken(t) == t.signed /\ (now \div 1000) < t.exp

isPassChangedSince(u, timestamp) ==
    passwordChangedAt[u] # NotSet /\ passwordChangedAt[u] > timestamp

\* the options of User.findById in isAuthenticated
FindByIdOptions == [lean |-> TRUE]

\* a document read with lean: true is a plain object without the methods
\* of the schema
HasInstanceMethods(options) == ~ options.lean

AuthResp(kind, jwt, token, next, code, error, user) ==
    [kind |-> kind, jwt |-> jwt, token |-> token, next |-> next,
     code |-> code, error |-> error, user |-> user]

NoAuthResp == AuthResp("none", NoJWT, 0, FALSE, 0, "none", Undefined)

\* the outcome of isAuthenticated for the JWT t
Authenticate(t) ==
    IF t = NoJWT
    THEN AuthResp("isAuthenticated", t, 0, FALSE, 401, "AppError", Undefined)
    ELSE IF ~ JWT_VerifyToken(t)
    THEN AuthResp("isAuthenticated", t, 0, FALSE, 500, "JsonWebTokenError",
                  Undefined)
    ELSE IF t.iat = 0
    THEN AuthResp("isAuthenticated", t, 0, FALSE, 402, "AppError", Undefined)
    ELSE IF ~ userExists[t.payload]
    THEN AuthResp("isAuthenticated", t, 0, FALSE, 404, "AppError", Undefined)
    ELSE IF ~ HasInstanceMethods(FindByIdOptions)
    THEN AuthResp("isAuthenticated", t, 0, FALSE, 500, "TypeError", t.payload)
    ELSE IF isPassChangedSince(t.payload, t.iat * 1000)
    THEN AuthResp("isAuthenticated", t, 0, FALSE, 401, "AppError", t.payload)
    ELSE AuthResp("isAuthenticated", t, 0, TRUE, 0, "none", t.payload)

AuthReceive ==
    /\ authStarted < MaxAuthRequests
    /\ authStarted' = authStarted + 1
    /\ UNCHANGED <<cartVars, ticks>>

Tick ==
    /\ ticks < MaxTicks
    /\ ticks' = ticks + 1
    /\ \E d \in TickSteps : now' = now + d
    /\ UNCHANGED <<cartVars, userExists, password, passwordChangedAt,
                   resetToken, resetExpiration, nextResetToken, jwts,
                   authResp, authStarted>>

login ==
    /\ AuthReceive
    /\ \E u \in Users, pw \in Passwords :
        IF ~ userExists[u]
        THEN /\ jwts' = jwts
             /\ authResp' = AuthResp("login", NoJWT, 0, FALSE, 404, "AppError", u)
        ELSE IF pw # password[u]
        THEN /\ jwts' = jwts
             /\ authResp' = AuthResp("login", NoJWT, 0, FALSE, 401, "AppError", u)
        ELSE /\ jwts' = jwts \cup {JWT_CreateToken(u)}
             /\ authResp' = AuthResp("login", JWT_CreateToken(u), 0, FALSE,
                                     200, "none", u)
    /\ UNCHANGED <<now, userExists, password, passwordChangedAt, resetToken,
                   resetExpiration, nextResetToken>>

\* generatePassResetToken and user.save()
forgotPassword ==
    /\ AuthReceive
    /\ \E u \in Users :
        IF ~ userExists[u]
        THEN /\ UNCHANGED <<resetToken, resetExpiration, nextResetToken>>
             /\ authResp' = AuthResp("forgotPassword", NoJWT, 0, FALSE, 404,
                                     "AppError", u)
        ELSE /\ resetToken' = [resetToken EXCEPT ![u] = sha256(nextResetToken)]
             /\ resetExpiration' =
                    [resetExpiration EXCEPT ![u] = now + ResetTokenLife]
             /\ nextResetToken' = nextResetToken + 1
             /\ authResp' = AuthResp("forgotPassword", NoJWT, nextResetToken,
                                     FALSE, 200, "none", u)
    /\ UNCHANGED <<now, userExists, password, passwordChangedAt, jwts>>

\* the users whose stored reset token is the hash of the token given
ResetTokenOwners(token) ==
    {u \in Users : userExists[u] /\ resetToken[u] = sha256(token)}

\* the token is one that was mailed, or one that never was (0)
resetPassword ==
    /\ AuthReceive
    /\ \E token \in 0..(nextResetToken - 1), pw \in Passwords \cup {Undefined} :
        IF pw = Undefined
        THEN /\ UNCHANGED <<password, passwordChangedAt, resetToken,
                            resetExpiration, jwts>>
             /\ authResp' = AuthResp("resetPassword", NoJWT, token, FALSE, 400,
                                     "AppError", Undefined)
        ELSE IF ResetTokenOwners(token) = {}
        THEN /\ UNCHANGED <<password, passwordChangedAt, resetToken,
                            resetExpiration, jwts>>
             /\ authResp' = AuthResp("resetPassword", NoJWT, token, FALSE, 400,
                                     "AppError", Undefined)
        ELSE LET u == CHOOSE o \in ResetTokenOwners(token) : TRUE IN
             /\ password' = [password EXCEPT ![u] = pw]
             /\ passwordChangedAt' = [passwordChangedAt EXCEPT ![u] = now - 1000]
             /\ resetToken' = [resetToken EXCEPT ![u] = NotSet]
             /\ resetExpiration' = [resetExpiration EXCEPT ![u] = NotSet]
             /\ jwts' = jwts \cup {JWT_CreateToken(u)}
             /\ authResp' = AuthResp("resetPassword", JWT_CreateToken(u), token,
                                     FALSE, 200, "none", u)
    /\ UNCHANGED <<now, userExists, nextResetToken>>

deleteUser ==
    /\ AuthReceive
    /\ \E u \in Users :
        IF ~ userExists[u]
        THEN /\ userExists' = userExists
             /\ authResp' = AuthResp("deleteUser", NoJWT, 0, FALSE, 404,
                                     "AppError", u)
        ELSE /\ userExists' = [userExists EXCEPT ![u] = FALSE]
             /\ authResp' = AuthResp("deleteUser", NoJWT, 0, FALSE, 204,
                                     "none", u)
    /\ UNCHANGED <<now, password, passwordChangedAt, resetToken,
                   resetExpiration, nextResetToken, jwts>>

\* the middleware, for a request with no JWT, a forged one or a signed one
isAuthenticated ==
    /\ AuthReceive
    /\ \E t \in jwts \cup {NoJWT} \cup {Forged(u) : u \in Users} :
        authResp' = Authenticate(t)
    /\ UNCHANGED <<now, userExists, password, passwordChangedAt, resetToken,
                   resetExpiration, nextResetToken, jwts>>

(***************************************************************************)
(* Specifications.                                                         *)
(***************************************************************************)
InitMode(m) ==
    /\ stock = InitialStock
    /\ prodExists = [p \in Products |-> TRUE]
    /\ carts = [u \in Users |-> NoCart]
    /\ nextCartId = 1
    /\ orders = <<>>
    /\ epoch = [u \in Users |-> 0]
    /\ pc = [r \in Procs |-> "idle"]
    /\ req = [r \in Procs |-> NoReq]
    /\ DocProduct = [r \in Procs |-> 0]
    /\ DocCart = [r \in Procs |-> NoLocalCart]
    /\ DocOrder = [r \in Procs |-> 0]
    /\ resp = NoResp
    /\ started = 0
    /\ mode = m
    /\ now = 5000
    /\ ticks = 0
    /\ userExists = [u \in Users |-> TRUE]
    /\ password = [u \in Users |-> "pw0"]
    /\ passwordChangedAt = [u \in Users |-> NotSet]
    /\ resetToken = [u \in Users |-> NotSet]
    /\ resetExpiration = [u \in Users |-> NotSet]
    /\ nextResetToken = 1
    /\ jwts = {}
    /\ authResp = NoAuthResp
    /\ authStarted = 0

Concurrent == [sequential |-> FALSE, positive |-> FALSE]

Init == InitMode(Concurrent)

\* one step of some request; requests interleave at every await
Next ==
    \E r \in Procs :
        \/ AddReserve(r)
        \/ AddUpsert(r)
        \/ AddUpsertNull(r)
        \/ AddRollback(r)
        \/ AddSave(r)
        \/ RemStart(r)
        \/ RemSave(r)
        \/ RemStock(r)
        \/ RemRollback(r)
        \/ OrderRead(r)
        \/ OrderCreate(r)
        \/ OrderClear(r)
        \/ DeleteProduct(r)
        \/ CartAdminRoute(r)
        \/ GetCart(r)
        \/ DeleteCart(r)

Spec == Init /\ [][Next]_vars

\* requests served one after the other
SpecSequential ==
    InitMode([sequential |-> TRUE, positive |-> FALSE]) /\ [][Next]_vars

\* the same, every cart request carrying a positive quantity
SpecSequentialPositive ==
    InitMode([sequential |-> TRUE, positive |-> TRUE]) /\ [][Next]_vars

\* concurrent addItemInCart requests with positive quantities, nothing else
NextAdd ==
    \E r \in Procs :
        \/ AddReserve(r)
        \/ AddUpsert(r)
        \/ AddUpsertNull(r)
        \/ AddRollback(r)
        \/ AddSave(r)

SpecAdd == InitMode([sequential |-> FALSE, positive |-> TRUE]) /\ [][NextAdd]_vars

\* the authentication requests and the clock
NextAuth ==
    \/ Tick
    \/ login
    \/ forgotPassword
    \/ resetPassword
    \/ deleteUser
    \/ isAuthenticated

SpecAuth == InitMode(Concurrent) /\ [][NextAuth]_vars

(***************************************************************************)
(* What the properties measure.                                            *)
(***************************************************************************)
\* the units of product p on the given cart or order lines
RECURSIVE LineQty(_, _)
LineQty(lines, p) ==
    IF Len(lines) = 0 THEN 0
    ELSE (IF Head(lines).product = p THEN Head(lines).quantity ELSE 0)
         + LineQty(Tail(lines), p)

RECURSIVE SumFn(_, _)
SumFn(f, S) ==
    IF S = {} THEN 0
    ELSE LET x == CHOOSE y \in S : TRUE IN f[x] + SumFn(f, S \ {x})

\* the units of p an addItemInCart request in flight has taken from the
\* stock and not yet put into the cart or given back
Held(r, p) ==
    IF /\ req[r].kind = "addItemInCart"
       /\ req[r].product = p
       /\ pc[r] \in {"add_upsert", "add_rollback", "add_save"}
    THEN req[r].quantity ELSE 0

\* the units of p reserved: in the carts, or held by a request in flight
Reserved(p) ==
    SumFn([u \in Users |-> LineQty(carts[u].products, p)], Users)
    + SumFn([r \in Procs |-> Held(r, p)], Procs)

\* process r ends a request of the given kind in this step
Ends(r, kind) == pc[r] # "idle" /\ pc'[r] = "idle" /\ req[r].kind = kind

(***************************************************************************)
(* C1.  Under any interleaving of concurrent addItemInCart requests with   *)
(* positive quantities no product's stock becomes negative and the total   *)
(* quantity reserved for a product never exceeds the stock it had before   *)
(* the requests.                                                           *)
(***************************************************************************)
C1_NeverOversold ==
    \A p \in Products : stock[p] >= 0 /\ Reserved(p) <= InitialStock[p]

(***************************************************************************)
(* C2.  addItemInCart is all-or-nothing: a request that succeeds has       *)
(* lowered the product's stock by the quantity and raised the cart line of *)
(* the product by the same quantity; a request that fails at any step,     *)
(* the cart save rejected by the 1..1000 validator included, leaves the    *)
(* stock as it was before the request.                                     *)
(***************************************************************************)
C2_AddAllOrNothing ==
    [][\A r \in Procs :
        Ends(r, "addItemInCart") /\ req[r].product \in Products =>
            LET u == req[r].user
                p == req[r].product
                q == req[r].quantity
            IN  IF resp'.code = 200
                THEN /\ stock'[p] = req[r].preStock - q
                     /\ LineQty(carts'[u].products, p)
                            = LineQty(req[r].preLines, p) + q
                ELSE /\ stock'[p] = req[r].preStock
                     /\ carts'[u].products = req[r].preLines]_vars

(***************************************************************************)
(* C3.  Adding a product that is already in the caller's cart raises the   *)
(* quantity of the existing line by the requested quantity and adds no     *)
(* line; after any sequence of sequential add and remove requests a cart   *)
(* holds at most one line per product.                                     *)
(***************************************************************************)
OneLinePerProduct ==
    \A u \in Users :
        \A i, j \in DOMAIN carts[u].products :
            carts[u].products[i].product = carts[u].products[j].product
                => i = j

ReAddIncrements ==
    \A r \in Procs :
        /\ Ends(r, "addItemInCart")
        /\ resp'.code = 200
        /\ findIndex(carts[req[r].user].products, req[r].product) # -1
        => LET u == req[r].user
               p == req[r].product
               ind == findIndex(carts[u].products, p)
           IN  /\ Len(carts'[u].products) = Len(carts[u].products)
               /\ carts'[u].products[ind + 1].quantity
                      = carts[u].products[ind + 1].quantity + req[r].quantity
               /\ \A i \in DOMAIN carts[u].products :
                      i # ind + 1 => carts'[u].products[i] = carts[u].products[i]

C3_ReAddMerges == []OneLinePerProduct /\ [][ReAddIncrements]_vars

\* two requests were made, both added one unit of p1 to the cart of u1: the
\* cart holds one line of two units
C3_Witness ==
    /\ started = 2
    /\ resp.kind = "addItemInCart"
    /\ resp.code = 200
    /\ carts["u1"].products = <<[product |-> "p1", quantity |-> 2]>>

(***************************************************************************)
(* C4.  The paid_amount of an order is the sum, over every line of the     *)
(* cart the order was made from, of the unit price of the line's product   *)
(* (selling_price when set, else price) times the line's quantity; no line *)
(* is left out of the sum.                                                 *)
(***************************************************************************)
UnitPrice(p) == IF SellingPrice[p] # NotSet THEN SellingPrice[p] ELSE Price[p]

RECURSIVE SumOfLines(_)
SumOfLines(lines) ==
    IF Len(lines) = 0 THEN 0
    ELSE UnitPrice(Head(lines).product) * Head(lines).quantity
         + SumOfLines(Tail(lines))

C6_CartConsumedOnce ==
    \A i, j \in DOMAIN orders :
        /\ orders[i].customer = orders[j].customer
        /\ orders[i].readCart = orders[j].readCart
        /\ orders[i].readEpoch = orders[j].readEpoch
        => i = j

(***************************************************************************)
(* C7.  When the cart upsert of addItemInCart fails, the rollback gives    *)
(* back exactly the reserved quantity: the stock after the rollback is the *)
(* stock just before it plus the quantity, whatever other requests did to  *)
(* the stock in the meantime.                                              *)
(***************************************************************************)
C7_RollbackGivesBackQuantity ==
    [][\A r \in Procs :
        pc[r] = "add_rollback" /\ pc'[r] = "idle" =>
            stock'[req[r].product]
                = stock[req[r].product] + req[r].quantity]_vars

(***************************************************************************)
(* C9.  GET /cart, GET /cart/:id and DELETE /cart/:id are for admins only: *)
(* the request of a member is rejected with 403 and reaches no handler.    *)
(***************************************************************************)
C9_CartAdminOnly ==
    \A r \in Procs : pc[r] = "cart_admin" => Role[req[r].user] # "member"

(***************************************************************************)
(* C8.  isAuthenticated admits a request, with req.user set, exactly when  *)
(* the request carries a JWT that verifies, the user the token names still *)
(* exists and that user's password has not been changed after the token    *)
(* was issued; in every other case it raises an error.                     *)
(***************************************************************************)
\* the password of u was changed after the time given: password_changed_at
\* is written one second before the time of the change
ChangedAfter(u, time) ==
    passwordChangedAt[u] # NotSet /\ passwordChangedAt[u] + 1000 > time

Admissible(t) ==
    /\ t # NoJWT
    /\ JWT_VerifyToken(t)
    /\ userExists[t.payload]
    /\ ~ ChangedAfter(t.payload, t.issuedAt)

C8_AdmitsExactlyTheAuthentic ==
    [][authStarted' # authStarted /\ authResp'.kind = "isAuthenticated" =>
        IF Admissible(authResp'.jwt)
        THEN /\ authResp'.next
             /\ authResp'.error = "none"
             /\ authResp'.user = authResp'.jwt.payload
        ELSE /\ ~ authResp'.next
             /\ authResp'.error # "none"]_vars

(***************************************************************************)
(* C10.  A password reset token stops working once it has expired:         *)
(* resetPassword with a token whose expiration, 24 hours after             *)
(* forgotPassword issued it, is in the past fails with 400 and leaves the  *)
(* user's password unchanged.                                              *)
(***************************************************************************)
C10_ExpiredResetTokenFails ==
    [][/\ authStarted' # authStarted
       /\ authResp'.kind = "resetPassword"
       /\ \E u \in ResetTokenOwners(authResp'.token) : resetExpiration[u] < now
       => /\ authResp'.code = 400
          /\ password' = password]_vars

(***************************************************************************)
(* C11.  Stock is conserved: when no request is in flight and no product   *)
(* has been deleted, for every product the stock plus its quantities in    *)
(* all carts plus its quantities in all orders is the initial stock.       *)
(***************************************************************************)
InCarts(p) == SumFn([u \in Users |-> LineQty(carts[u].products, p)], Users)

InOrders(p) ==
    SumFn([i \in DOMAIN orders |-> LineQty(orders[i].products, p)],
          DOMAIN orders)

Quiescent == \A r \in Procs : pc[r] = "idle"

C11_StockConserved ==
    Quiescent /\ (\A p \in Products : prodExists[p]) =>
        \A p \in Products :
            stock[p] + InCarts(p) + InOrders(p) = InitialStock[p]

(***************************************************************************)
(* C12.  A cart request whose quantity is not at least 1 changes nothing:  *)
(* addItemInCart and removeItemFromCart each fail and leave the product's  *)
(* stock and the cart's lines as they were before the request.             *)
(***************************************************************************)
C12_BadQuantityChangesNothing ==
    [][\A r \in Procs :
        /\ Ends(r, "addItemInCart") \/ Ends(r, "removeItemFromCart")
        /\ req[r].product \in Products
        /\ req[r].quantity < MinQuantity
        => /\ resp'.code # 200
           /\ stock'[req[r].product] = req[r].preStock
           /\ carts'[req[r].user].products = req[r].preLines]_vars

(***************************************************************************)
(* C13.  Every line of every stored cart has a quantity between 1 and 1000 *)
(* inclusive, in every state reachable by addItemInCart and                *)
(* removeItemFromCart requests.                                            *)
(***************************************************************************)
C13_CartQuantitiesInRange ==
    \A u \in Users :
        \A i \in DOMAIN carts[u].products :
            /\ carts[u].products[i].quantity >= MinQuantity
            /\ carts[u].products[i].quantity <= MaxQuantity

\* a cart holds a line of 1000 units and the last request, an addItemInCart,
\* was rejected by the validator
C13_Witness ==
    /\ Quiescent
    /\ resp.kind = "addItemInCart"
    /\ resp.error = "ValidationError"
    /\ \E u \in Users :
        \E i \in DOMAIN carts[u].products :
            carts[u].products[i].quantity = MaxQuantity

(***************************************************************************)
(* C14.  If the product named in a removeItemFromCart request is not in    *)
(* the caller's cart, the request throws an error and changes neither the  *)
(* product's stock nor any cart line.                                      *)
(***************************************************************************)
C14_RemoveOfAbsentProductFails ==
    [][\A r \in Procs :
        /\ Ends(r, "removeItemFromCart")
        /\ req[r].product \in Products
        /\ findIndex(req[r].preLines, req[r].product) = -1
        => /\ resp'.error # "none"
           /\ stock'[req[r].product] = req[r].preStock
           /\ carts'[req[r].user].products = req[r].preLines]_vars

(***************************************************************************)
(* C15.  removeItemFromCart with a quantity greater than the quantity of   *)
(* that product's line in the caller's cart fails with 400 and leaves the  *)
(* cart's lines and the product's stock unchanged.                         *)
(***************************************************************************)
\* the lines hold product p with fewer than q units
HoldsFewer(lines, p, q) ==
    /\ findIndex(lines, p) # -1
    /\ lines[findIndex(lines, p) + 1].quantity < q

\* no such request gets past the comparison of step 5
NoExcessRemoveProceeds ==
    \A r \in Procs :
        req[r].kind = "removeItemFromCart" /\ pc[r] # "idle" =>
            ~ HoldsFewer(req[r].preLines, req[r].product, req[r].quantity)

\* a removeItemFromCart request answered in the step that receives it
ExcessRemoveRejected ==
    /\ started' = started + 1
    /\ \A r \in Procs : pc'[r] = "idle"
    /\ resp'.kind = "removeItemFromCart"
    /\ resp'.body[2] \in Products
    /\ HoldsFewer(carts[resp'.body[1]].products, resp'.body[2], resp'.body[3])
    => /\ resp'.code = 400
       /\ stock' = stock
       /\ \A u \in Users : carts'[u].products = carts[u].products

C15_ExcessRemoveFails ==
    []NoExcessRemoveProceeds /\ [][ExcessRemoveRejected]_vars

\* u1 holds one unit of p1 and has just asked to remove 1000: answered 400
C15_Witness ==
    /\ Quiescent
    /\ resp.kind = "removeItemFromCart"
    /\ resp.code = 400
    /\ resp.body = <<"u1", "p1", 1000>>
    /\ carts["u1"].products = <<[product |-> "p1", quantity |-> 1]>>
    /\ stock["p1"] = InitialStock["p1"] - 1

(***************************************************************************)
(* C16.  A successful removeItemFromCart of quantity q for a product whose *)
(* cart line holds n >= q units leaves the line with n - q units when      *)
(* q < n and removes the line when q = n, raises the product's stock by    *)
(* exactly q, and changes no other cart line and no other product's stock. *)
(***************************************************************************)
\* the lines without the one at position i (1-based)
WithoutLine(lines, i) ==
    SubSeq(lines, 1, i - 1) \o SubSeq(lines, i + 1, Len(lines))

\* the request that succeeds leaves the line and the stock as stated
RemoveTakesOut ==
    \A r \in Procs :
        /\ Ends(r, "removeItemFromCart")
        /\ resp'.code = 200
        /\ findIndex(req[r].preLines, req[r].product) # -1
        => LET u == req[r].user
               p == req[r].product
               q == req[r].quantity
               i == findIndex(req[r].preLines, p) + 1
               n == req[r].preLines[i].quantity
           IN  /\ n >= q
               /\ carts'[u].products =
                      IF q = n
                      THEN WithoutLine(req[r].preLines, i)
                      ELSE [req[r].preLines EXCEPT ![i].quantity = n - q]
               /\ stock'[p] = req[r].preStock + q

\* no step of the request touches another product's stock or another cart
RemoveTouchesNothingElse ==
    \A r \in Procs :
        \/ req[r].kind = "removeItemFromCart" /\ pc[r] # "idle"
        \/ req'[r].kind = "removeItemFromCart" /\ pc'[r] # "idle"
        => LET rq == IF pc[r] # "idle" THEN req[r] ELSE req'[r] IN
           /\ \A p \in Products \ {rq.product} : stock'[p] = stock[p]
           /\ \A u \in Users \ {rq.user} : carts'[u] = carts[u]

C16_RemoveTakesOutExactly ==
    [][RemoveTakesOut]_vars /\ [][RemoveTouchesNothingElse]_vars

\* u1 added two units of p1 and then removed one: one unit is left in the
\* cart and one unit is back in the stock
C16_Witness ==
    /\ Quiescent
    /\ started = 2
    /\ resp.kind = "removeItemFromCart"
    /\ resp.code = 200
    /\ resp.body = <<"u1", "p1", 1>>
    /\ carts["u1"].products = <<[product |-> "p1", quantity |-> 1]>>
    /\ stock["p1"] = InitialStock["p1"] - 1

(***************************************************************************)
(* C17.  If the stock update of removeItemFromCart fails because the       *)
(* product no longer exists, the rollback restores the caller's cart to    *)
(* the lines it had before the request and the request ends with the 500   *)
(* 'Failed to remove item from the cart' error, also when the removed line *)
(* was the last or only line of the cart.                                  *)
(***************************************************************************)
\* the same number of lines and, product by product, the same quantities
SameLines(a, b) ==
    /\ Len(a) = Len(b)
    /\ \A p \in Products : LineQty(a, p) = LineQty(b, p)

LinesOf(lines, p) == {i \in DOMAIN lines : lines[i].product = p}

C18_ConcurrentAddsSumUp ==
    [][\A r \in Procs :
        Ends(r, "addItemInCart") /\ resp'.code = 200 =>
            LET u == req[r].user
                p == req[r].product
            IN  /\ LineQty(carts'[u].products, p)
                       = LineQty(carts[u].products, p) + req[r].quantity
                /\ Cardinality(LinesOf(carts'[u].products, p)) = 1]_vars

====
